---- MODULE Spec2Model ----
(***************************************************************************)
(* State-machine model of the AgriProof claim registry                     *)
(* (smart_contracts/agriproof/contract.py, class AgriProofContract).       *)
(*                                                                         *)
(* Every ABI method is one action.  A method call that fails (an assert,   *)
(* an AVM arithmetic overflow, a box_put with a wrong length) rolls back   *)
(* the whole application call: the persistent state is left as it was and  *)
(* only the record of the call (last) says what happened.                  *)
(***************************************************************************)
EXTENDS Integers, Sequences, FiniteSets, TLC

VARIABLES created, admin, enrollments, claims, verifiers, now, last,
          enrolledBy, submittedBy, decidedBy, refVerifiers, beforeAdd, ran

vars == <<created, admin, enrollments, claims, verifiers, now, last,
          enrolledBy, submittedBy, decidedBy, refVerifiers, beforeAdd, ran>>

store == <<created, admin, enrollments, claims, verifiers>>

\* the history of the calls: who enrolled, who submitted, who decided which
\* claim, who was added and not removed, and the verifier box as it was
\* before the last add_verifier that succeeded (ran, beside them, is the
\* run of the statements of the last call)
ghost == <<enrolledBy, submittedBy, decidedBy, refVerifiers, beforeAdd>>

(***************************************************************************)
(* Bounds of the model.                                                    *)
(***************************************************************************)
\* the ledger clock runs from 0 to MaxDays days
MaxDays == 1

(***************************************************************************)
(* Program constants.                                                      *)
(***************************************************************************)
SECONDS_PER_DAY == 86400

\* width of one entry of the verifier list
ADDRESS_LENGTH == 32

\* ClaimStatus
PENDING == 0

APPROVED == 1

REJECTED == 2

ERR_ALREADY_ENROLLED == "ERR_ALREADY_ENROLLED"

ERR_INVALID_DEADLINE == "ERR_INVALID_DEADLINE"

ERR_NOT_ENROLLED == "ERR_NOT_ENROLLED"

ERR_DEADLINE_PASSED == "ERR_DEADLINE_PASSED"

ERR_DUPLICATE_CLAIM == "ERR_DUPLICATE_CLAIM"

ERR_INVALID_PROOF_HASH == "ERR_INVALID_PROOF_HASH"

ERR_NOT_VERIFIER == "ERR_NOT_VERIFIER"

ERR_CLAIM_NOT_FOUND == "ERR_CLAIM_NOT_FOUND"
ERR_ENROLLMENT_NOT_FOUND == "ERR_ENROLLMENT_NOT_FOUND"

ERR_CLAIM_NOT_PENDING == "ERR_CLAIM_NOT_PENDING"

ERR_NOT_ADMIN == "ERR_NOT_ADMIN"

ERR_VERIFIER_EXISTS == "ERR_VERIFIER_EXISTS"

ERR_VERIFIER_NOT_FOUND == "ERR_VERIFIER_NOT_FOUND"

\* failures of the virtual machine itself, outside the contract's asserts
AVM_OVERFLOW == "AVM_OVERFLOW"

AVM_BOX_SIZE == "AVM_BOX_SIZE"

AVM_NOT_CREATING == "AVM_NOT_CREATING"

\* the logs of a call (events and the return value) exceed MaxLogSize
AVM_LOG_SIZE == "AVM_LOG_SIZE"

\* the AVM's limit on the bytes one application call may log
MaxLogSize == 1024

OK == "OK"

\* GlobalState(Bytes) before its first assignment
Unset == <<>>

(***************************************************************************)
(* Unsigned 64-bit integers.  arc4.UInt64 is eight bytes, big-endian; the  *)
(* AVM's + and * fail on overflow instead of wrapping.                     *)
(***************************************************************************)
U64Bytes == 8

\* arc4.UInt64(n) for a native n below 2^31
U64(n) == [k \in 1..U64Bytes |-> IF k <= 4 THEN 0 ELSE (n \div (256 ^ (U64Bytes - k))) % 256]

RECURSIVE AddCarry(_, _, _)
\* the carry out of byte k when adding a and b
AddCarry(a, b, k) ==
    IF k > U64Bytes THEN 0
    ELSE (a[k] + b[k] + AddCarry(a, b, k + 1)) \div 256

\* a + b of the AVM: [ok |-> FALSE] when the sum needs more than 64 bits
U64Add(a, b) ==
    [ok  |-> AddCarry(a, b, 1) = 0,
     val |-> [k \in 1..U64Bytes |-> (a[k] + b[k] + AddCarry(a, b, k + 1)) % 256]]

RECURSIVE MulCarry(_, _, _)
\* the carry out of byte k when multiplying a by the native m
MulCarry(a, m, k) ==
    IF k > U64Bytes THEN 0
    ELSE (a[k] * m + MulCarry(a, m, k + 1)) \div 256

\* a * m of the AVM, m a native below 2^22
U64Mul(a, m) ==
    [ok  |-> MulCarry(a, m, 1) = 0,
     val |-> [k \in 1..U64Bytes |-> (a[k] * m + MulCarry(a, m, k + 1)) % 256]]

\* a < b
U64Less(a, b) ==
    \E k \in 1..U64Bytes : a[k] < b[k] /\ \A j \in 1..(k - 1) : a[j] = b[j]

U64Zero == [k \in 1..U64Bytes |-> 0]

(***************************************************************************)
(* Accounts.  An account is named by a number, 0 for the zero address; its *)
(* 32 bytes are the number in the last byte.                               *)
(***************************************************************************)
\* Account.bytes, arc4.Address.native.bytes
Address(i) == [k \in 1..ADDRESS_LENGTH |-> IF k = ADDRESS_LENGTH THEN i ELSE 0]

\* arc4.Address(): the zero address
ZeroAddress == 0

Accounts == {1, 2, 3}

\* the account that deploys the application
Deployers == {1}

\* the accounts that send enroll_farmer and submit_claim
Farmers == {2}

(***************************************************************************)
(* Inputs.                                                                 *)
(***************************************************************************)
\* 213503982334601 = (2^64 - 1) \div 86400, the largest number of days whose
\* product with SECONDS_PER_DAY fits in 64 bits; 213503982334602 is the next
DaysLargest == <<0, 0, 194, 46, 69, 6, 114, 137>>

DaysTooLarge == <<0, 0, 194, 46, 69, 6, 114, 138>>

DeadlineDays == {U64(0), U64(1), DaysLargest, DaysTooLarge}

RECURSIVE Filler(_)
\* a string of n characters
Filler(n) ==
    IF n = 0 THEN ""
    ELSE IF n % 2 = 0 THEN LET half == Filler(n \div 2) IN half \o half
    ELSE "a" \o Filler(n - 1)

\* the longest proof_hash whose ClaimSubmitted event fits the log (40 + 984
\* bytes), and the shortest one whose event does not
HashLongest == Filler(984)

HashTooLong == Filler(985)

ProofHashes == {"", "h1", HashLongest, HashTooLong}

\* the clock moves by whole days, so that it meets the deadlines exactly
TimeSteps == {SECONDS_PER_DAY}

MaxTime == MaxDays * SECONDS_PER_DAY

(***************************************************************************)
(* Box storage.  A box holds the arc4 encoding of a record; the model      *)
(* keeps the record and computes the encoding's length.                    *)
(***************************************************************************)
\* Enrollment.bytes.length: two arc4.UInt64
EnrollmentBytesLength(e) == U64Bytes + U64Bytes

\* Claim.bytes.length: head (offset, status, timestamp, address, timestamp)
\* and the tail of the dynamic string (length prefix and characters)
ClaimBytesLength(c) == (2 + 1 + U64Bytes + ADDRESS_LENGTH + U64Bytes) + (2 + Len(c.proof_hash))

\* the bytes arc4.emit("ClaimSubmitted", Txn.sender, proof_hash) logs: the
\* event's 4-byte selector, the address, the offset of the string, its length
\* prefix and its characters
ClaimSubmittedLogLength(proof_hash) == 4 + ADDRESS_LENGTH + 2 + (2 + Len(proof_hash))

\* the bytes the return of get_claim logs: the 4-byte return prefix and the
\* arc4 encoding of ClaimDetails (address, offset, status, timestamp, address,
\* timestamp, and the string's length prefix and characters)
ClaimDetailsLogLength(c) ==
    4 + (ADDRESS_LENGTH + 2 + 1 + U64Bytes + ADDRESS_LENGTH + U64Bytes) + (2 + Len(c.proof_hash))

\* BoxRef(key=b"enrollment_" + address) that does not exist
NoEnrollment == [exists |-> FALSE, enrollment_timestamp |-> U64Zero, claim_deadline |-> U64Zero]

\* BoxRef(key=b"claim_" + address) that does not exist
NoClaim == [exists |-> FALSE, proof_hash |-> "", status |-> PENDING,
            submission_timestamp |-> U64Zero, verifier_address |-> ZeroAddress,
            verification_timestamp |-> U64Zero]

\* BoxRef(key=b"verifiers") that does not exist
NoVerifiers == [exists |-> FALSE, bytes |-> <<>>]

\* no verify_claim has decided the claim
Undecided == [decided |-> FALSE, verifier |-> ZeroAddress, at |-> 0, approved |-> FALSE]

\* BoxRef.put: fails if the box exists with another length
BoxPutOk(exists, oldLength, newLength) == (~exists) \/ oldLength = newLength

(***************************************************************************)
(* Verifier list helpers.                                                  *)
(***************************************************************************)
\* op.extract(b, start, 32), start counted from 0
extract(b, start, length) == SubSeq(b, start + 1, start + length)

\* _verifier_in_list whose loop stops one entry early
_verifier_in_list_OffByOne(verifiers_bytes, address_bytes) ==
    LET num_verifiers == Len(verifiers_bytes) \div ADDRESS_LENGTH
    IN  \E i \in 0..(num_verifiers - 2) :
            extract(verifiers_bytes, i * ADDRESS_LENGTH, ADDRESS_LENGTH) = address_bytes

_verifier_in_list(verifiers_bytes, address_bytes) ==
    LET num_verifiers == Len(verifiers_bytes) \div ADDRESS_LENGTH
    IN  \E i \in 0..(num_verifiers - 1) :
            extract(verifiers_bytes, i * ADDRESS_LENGTH, ADDRESS_LENGTH) = address_bytes

RECURSIVE RemoveFrom(_, _, _, _)
\* the loop of _remove_from_list from entry i on, result accumulated so far
RemoveFrom(verifiers_bytes, address_bytes, i, result) ==
    IF i >= Len(verifiers_bytes) \div ADDRESS_LENGTH THEN result
    ELSE LET verifier == extract(verifiers_bytes, i * ADDRESS_LENGTH, ADDRESS_LENGTH)
         IN  RemoveFrom(verifiers_bytes, address_bytes, i + 1,
                        IF verifier # address_bytes THEN result \o verifier ELSE result)

\* _remove_from_list that keeps every entry
_remove_from_list_KeepsAll(verifiers_bytes, address_bytes) == verifiers_bytes

_remove_from_list(verifiers_bytes, address_bytes) ==
    RemoveFrom(verifiers_bytes, address_bytes, 0, <<>>)

\* _is_verifier that lets the admin pass
_is_verifier_AdminToo(address) ==
    IF Address(address) = admin THEN TRUE
    ELSE IF ~verifiers.exists THEN FALSE
    ELSE _verifier_in_list(verifiers.bytes, Address(address))

_is_verifier(address) ==
    IF ~verifiers.exists THEN FALSE
    ELSE _verifier_in_list(verifiers.bytes, Address(address))

\* the read-only ABI methods
is_verifier(address) == _is_verifier(address)

get_admin == admin

(***************************************************************************)
(* The record of the last call made at the current ledger time: method,    *)
(* sender, arguments, outcome and the event it emitted.                    *)
(***************************************************************************)
NoEvent == <<>>

Call(op, sender, addr, days, proof, approved, err, event) ==
    [op |-> op, sender |-> sender, addr |-> addr, days |-> days, proof |-> proof,
     approved |-> approved, err |-> err,
     event |-> IF err = OK THEN event ELSE NoEvent]

NoCall == [op |-> "none", sender |-> ZeroAddress, addr |-> ZeroAddress, days |-> U64Zero,
           proof |-> "", approved |-> FALSE, err |-> OK, event |-> NoEvent]

(***************************************************************************)
(* The statements of a method that can end the call or that have an effect, *)
(* in the order of the source: an assert, a computation that the AVM may   *)
(* abort, a write (box create, put, delete, or the global admin), an emit  *)
(* or a return that is logged, each with the error it stops the call with  *)
(* (OK if it cannot).                                                      *)
(***************************************************************************)
Stmt(kind, err) == [kind |-> kind, err |-> err]

\* err is OK or the error of one of the statements
Raises(stmts, err) == err = OK \/ \E i \in 1..Len(stmts) : stmts[i].err = err

\* a call that fails with err has executed a write or an emit before the
\* statement that fails: the AVM discards what was written and logged
Discards(stmts, err) ==
    /\ err # OK
    /\ \E i \in 1..Len(stmts) :
          /\ stmts[i].err = err
          /\ \E j \in 1..(i - 1) : stmts[j].kind \in {"write", "emit"}

\* the run of a call that ended with err
Run(stmts, err) == [raised |-> Raises(stmts, err), discards |-> Discards(stmts, err)]

NoRun == [raised |-> TRUE, discards |-> FALSE]

Init ==
    /\ created = FALSE
    /\ admin = Unset
    /\ enrollments = [a \in Accounts |-> NoEnrollment]
    /\ claims = [a \in Accounts |-> NoClaim]
    /\ verifiers = NoVerifiers
    /\ now = 0
    /\ last = NoCall
    /\ enrolledBy = {}
    /\ submittedBy = {}
    /\ decidedBy = [a \in Accounts |-> Undecided]
    /\ refVerifiers = {}
    /\ beforeAdd = NoVerifiers
    /\ ran = NoRun

(***************************************************************************)
(* create: only the application-creating call may run it.                  *)
(***************************************************************************)
\* create that any application call may run
create_err_Allow == OK

create_err == IF created THEN AVM_NOT_CREATING ELSE OK

\* create="require" (line 94), then self.admin.value = Txn.sender.bytes (100)
create_stmts ==
    <<Stmt("assert", AVM_NOT_CREATING),
      Stmt("write", OK)>>

create(sender) ==
    LET err == create_err
    IN  /\ created \/ sender \in Deployers
        /\ last' = Call("create", sender, ZeroAddress, U64Zero, "", FALSE, err, NoEvent)
        /\ IF err = OK
           THEN /\ created' = TRUE
                /\ admin' = Address(sender)
                /\ UNCHANGED <<enrollments, claims, verifiers>>
           ELSE UNCHANGED store
        /\ UNCHANGED <<now, ghost>>

(***************************************************************************)
(* enroll_farmer                                                           *)
(***************************************************************************)
\* deadline_days.native * SECONDS_PER_DAY
enroll_product(deadline_days) == U64Mul(deadline_days, SECONDS_PER_DAY)

\* enrollment_timestamp + (deadline_days.native * SECONDS_PER_DAY)
enroll_claim_deadline(deadline_days) == U64Add(U64(now), enroll_product(deadline_days).val)

\* Enrollment(enrollment_timestamp=..., claim_deadline=...)
new_enrollment(deadline_days) ==
    [exists |-> TRUE,
     enrollment_timestamp |-> U64(now),
     claim_deadline |-> enroll_claim_deadline(deadline_days).val]

\* enrollment_box.create(size=enrollment.bytes.length); enrollment_box.put(enrollment.bytes)
enroll_put_ok(deadline_days) ==
    BoxPutOk(TRUE, EnrollmentBytesLength(new_enrollment(deadline_days)),
             EnrollmentBytesLength(new_enrollment(deadline_days)))

\* enroll_farmer that looks for the record before it validates the deadline
enroll_farmer_err_ExistsFirst(sender, deadline_days) ==
    IF enrollments[sender].exists THEN ERR_ALREADY_ENROLLED
    ELSE IF ~U64Less(U64Zero, deadline_days) THEN ERR_INVALID_DEADLINE
    ELSE IF ~enroll_product(deadline_days).ok THEN AVM_OVERFLOW
    ELSE IF ~enroll_claim_deadline(deadline_days).ok THEN AVM_OVERFLOW
    ELSE IF ~enroll_put_ok(deadline_days) THEN AVM_BOX_SIZE
    ELSE OK

\* enroll_farmer without the duplicate-enrollment assert
enroll_farmer_err_NoExistsCheck(sender, deadline_days) ==
    IF ~U64Less(U64Zero, deadline_days) THEN ERR_INVALID_DEADLINE
    ELSE IF ~enroll_product(deadline_days).ok THEN AVM_OVERFLOW
    ELSE IF ~enroll_claim_deadline(deadline_days).ok THEN AVM_OVERFLOW
    ELSE IF ~enroll_put_ok(deadline_days) THEN AVM_BOX_SIZE
    ELSE OK

enroll_farmer_err(sender, deadline_days) ==
    IF ~U64Less(U64Zero, deadline_days) THEN ERR_INVALID_DEADLINE
    ELSE IF enrollments[sender].exists THEN ERR_ALREADY_ENROLLED
    ELSE IF ~enroll_product(deadline_days).ok THEN AVM_OVERFLOW
    ELSE IF ~enroll_claim_deadline(deadline_days).ok THEN AVM_OVERFLOW
    ELSE IF ~enroll_put_ok(deadline_days) THEN AVM_BOX_SIZE
    ELSE OK

\* lines 115, 120, 124 (product, sum), 131, 132, 135
enroll_farmer_stmts ==
    <<Stmt("assert", ERR_INVALID_DEADLINE),
      Stmt("assert", ERR_ALREADY_ENROLLED),
      Stmt("compute", AVM_OVERFLOW),
      Stmt("compute", AVM_OVERFLOW),
      Stmt("write", OK),
      Stmt("write", AVM_BOX_SIZE),
      Stmt("emit", OK)>>

enroll_farmer(sender, deadline_days) ==
    LET err == enroll_farmer_err(sender, deadline_days)
        enrollment == new_enrollment(deadline_days)
    IN  /\ created
        /\ last' = Call("enroll_farmer", sender, ZeroAddress, deadline_days, "", FALSE, err,
                        <<"FarmerEnrolled", sender, enrollment.claim_deadline>>)
        /\ IF err = OK
           THEN /\ enrollments' = [enrollments EXCEPT ![sender] = enrollment]
                /\ enrolledBy' = enrolledBy \cup {sender}
           ELSE UNCHANGED <<enrollments, enrolledBy>>
        /\ UNCHANGED <<created, admin, claims, verifiers, now,
                       submittedBy, decidedBy, refVerifiers, beforeAdd>>

(***************************************************************************)
(* submit_claim                                                            *)
(***************************************************************************)
\* Claim(proof_hash=proof_hash, status=arc4.UInt8(0), ...)
\* a new claim whose verification time is already stamped
new_claim_StampsVerification(proof_hash) ==
    [exists |-> TRUE,
     proof_hash |-> proof_hash,
     status |-> PENDING,
     submission_timestamp |-> U64(now),
     verifier_address |-> ZeroAddress,
     verification_timestamp |-> U64(now)]

new_claim(proof_hash) ==
    [exists |-> TRUE,
     proof_hash |-> proof_hash,
     status |-> PENDING,
     submission_timestamp |-> U64(now),
     verifier_address |-> ZeroAddress,
     verification_timestamp |-> U64(0)]

\* claim_box.create(size=claim.bytes.length); claim_box.put(claim.bytes)
submit_put_ok(proof_hash) ==
    BoxPutOk(TRUE, ClaimBytesLength(new_claim(proof_hash)), ClaimBytesLength(new_claim(proof_hash)))

\* submit_claim without the duplicate-claim assert
submit_claim_err_NoDuplicateCheck(sender, proof_hash) ==
    IF proof_hash = "" THEN ERR_INVALID_PROOF_HASH
    ELSE IF ~enrollments[sender].exists THEN ERR_NOT_ENROLLED
    ELSE IF ~U64Less(U64(now), enrollments[sender].claim_deadline) THEN ERR_DEADLINE_PASSED
    ELSE IF ~submit_put_ok(proof_hash) THEN AVM_BOX_SIZE
    ELSE IF ClaimSubmittedLogLength(proof_hash) > MaxLogSize THEN AVM_LOG_SIZE
    ELSE OK

\* submit_claim that looks for the claim before it compares the deadline
submit_claim_err_DuplicateFirst(sender, proof_hash) ==
    IF proof_hash = "" THEN ERR_INVALID_PROOF_HASH
    ELSE IF ~enrollments[sender].exists THEN ERR_NOT_ENROLLED
    ELSE IF claims[sender].exists THEN ERR_DUPLICATE_CLAIM
    ELSE IF ~U64Less(U64(now), enrollments[sender].claim_deadline) THEN ERR_DEADLINE_PASSED
    ELSE IF ~submit_put_ok(proof_hash) THEN AVM_BOX_SIZE
    ELSE IF ClaimSubmittedLogLength(proof_hash) > MaxLogSize THEN AVM_LOG_SIZE
    ELSE OK

\* submit_claim without the deadline assert
submit_claim_err_NoDeadlineCheck(sender, proof_hash) ==
    IF proof_hash = "" THEN ERR_INVALID_PROOF_HASH
    ELSE IF ~enrollments[sender].exists THEN ERR_NOT_ENROLLED
    ELSE IF claims[sender].exists THEN ERR_DUPLICATE_CLAIM
    ELSE IF ~submit_put_ok(proof_hash) THEN AVM_BOX_SIZE
    ELSE IF ClaimSubmittedLogLength(proof_hash) > MaxLogSize THEN AVM_LOG_SIZE
    ELSE OK

submit_claim_err(sender, proof_hash) ==
    IF proof_hash = "" THEN ERR_INVALID_PROOF_HASH
    ELSE IF ~enrollments[sender].exists THEN ERR_NOT_ENROLLED
    ELSE IF ~U64Less(U64(now), enrollments[sender].claim_deadline) THEN ERR_DEADLINE_PASSED
    ELSE IF claims[sender].exists THEN ERR_DUPLICATE_CLAIM
    ELSE IF ~submit_put_ok(proof_hash) THEN AVM_BOX_SIZE
    ELSE IF ClaimSubmittedLogLength(proof_hash) > MaxLogSize THEN AVM_LOG_SIZE
    ELSE OK

\* lines 152, 157, 162, 167, 177, 178, 181
submit_claim_stmts ==
    <<Stmt("assert", ERR_INVALID_PROOF_HASH),
      Stmt("assert", ERR_NOT_ENROLLED),
      Stmt("assert", ERR_DEADLINE_PASSED),
      Stmt("assert", ERR_DUPLICATE_CLAIM),
      Stmt("write", OK),
      Stmt("write", AVM_BOX_SIZE),
      Stmt("emit", AVM_LOG_SIZE)>>

submit_claim(sender, proof_hash) ==
    LET err == submit_claim_err(sender, proof_hash)
        claim == new_claim(proof_hash)
    IN  /\ created
        /\ last' = Call("submit_claim", sender, ZeroAddress, U64Zero, proof_hash, FALSE, err,
                        <<"ClaimSubmitted", sender, proof_hash>>)
        /\ IF err = OK
           THEN /\ claims' = [claims EXCEPT ![sender] = claim]
                /\ submittedBy' = submittedBy \cup {sender}
           ELSE UNCHANGED <<claims, submittedBy>>
        /\ UNCHANGED <<created, admin, enrollments, verifiers, now,
                       enrolledBy, decidedBy, refVerifiers, beforeAdd>>

(***************************************************************************)
(* verify_claim                                                            *)
(***************************************************************************)
\* arc4.UInt8(1) if approved.native else arc4.UInt8(2)
new_status(approved) == IF approved THEN APPROVED ELSE REJECTED

\* an update that stamps the submission time again
updated_claim_ResetsSubmission(claim, sender, approved) ==
    [exists |-> TRUE,
     proof_hash |-> claim.proof_hash,
     status |-> new_status(approved),
     submission_timestamp |-> U64(now),
     verifier_address |-> sender,
     verification_timestamp |-> U64(now)]

\* Claim(proof_hash=claim.proof_hash, status=new_status, ...)
updated_claim(claim, sender, approved) ==
    [exists |-> TRUE,
     proof_hash |-> claim.proof_hash,
     status |-> new_status(approved),
     submission_timestamp |-> claim.submission_timestamp,
     verifier_address |-> sender,
     verification_timestamp |-> U64(now)]

\* verify_claim without the status assert
verify_claim_err_NoPendingCheck(sender, farmer_address, approved) ==
    IF ~_is_verifier(sender) THEN ERR_NOT_VERIFIER
    ELSE IF ~claims[farmer_address].exists THEN ERR_CLAIM_NOT_FOUND
    ELSE IF ~BoxPutOk(TRUE, ClaimBytesLength(claims[farmer_address]),
                      ClaimBytesLength(updated_claim(claims[farmer_address], sender, approved)))
         THEN AVM_BOX_SIZE
    ELSE OK

\* verify_claim that reads the claim before it authorizes the sender
verify_claim_err_PendingFirst(sender, farmer_address, approved) ==
    IF ~claims[farmer_address].exists THEN ERR_CLAIM_NOT_FOUND
    ELSE IF claims[farmer_address].status # PENDING THEN ERR_CLAIM_NOT_PENDING
    ELSE IF ~_is_verifier(sender) THEN ERR_NOT_VERIFIER
    ELSE IF ~BoxPutOk(TRUE, ClaimBytesLength(claims[farmer_address]),
                      ClaimBytesLength(updated_claim(claims[farmer_address], sender, approved)))
         THEN AVM_BOX_SIZE
    ELSE OK

\* verify_claim that looks for the claim before it authorizes the sender
verify_claim_err_FoundFirst(sender, farmer_address, approved) ==
    IF ~claims[farmer_address].exists THEN ERR_CLAIM_NOT_FOUND
    ELSE IF ~_is_verifier(sender) THEN ERR_NOT_VERIFIER
    ELSE IF claims[farmer_address].status # PENDING THEN ERR_CLAIM_NOT_PENDING
    ELSE IF ~BoxPutOk(TRUE, ClaimBytesLength(claims[farmer_address]),
                      ClaimBytesLength(updated_claim(claims[farmer_address], sender, approved)))
         THEN AVM_BOX_SIZE
    ELSE OK

\* verify_claim that refuses a decision once the farmer's deadline is reached
verify_claim_err_DeadlineChecked(sender, farmer_address, approved) ==
    IF ~_is_verifier(sender) THEN ERR_NOT_VERIFIER
    ELSE IF ~claims[farmer_address].exists THEN ERR_CLAIM_NOT_FOUND
    ELSE IF claims[farmer_address].status # PENDING THEN ERR_CLAIM_NOT_PENDING
    ELSE IF ~U64Less(U64(now), enrollments[farmer_address].claim_deadline)
         THEN ERR_DEADLINE_PASSED
    ELSE IF ~BoxPutOk(TRUE, ClaimBytesLength(claims[farmer_address]),
                      ClaimBytesLength(updated_claim(claims[farmer_address], sender, approved)))
         THEN AVM_BOX_SIZE
    ELSE OK

verify_claim_err(sender, farmer_address, approved) ==
    IF ~_is_verifier(sender) THEN ERR_NOT_VERIFIER
    ELSE IF ~claims[farmer_address].exists THEN ERR_CLAIM_NOT_FOUND
    ELSE IF claims[farmer_address].status # PENDING THEN ERR_CLAIM_NOT_PENDING
    ELSE IF ~BoxPutOk(TRUE, ClaimBytesLength(claims[farmer_address]),
                      ClaimBytesLength(updated_claim(claims[farmer_address], sender, approved)))
         THEN AVM_BOX_SIZE
    ELSE OK

\* verify_claim that stores the decision before it reads the status
verify_claim_stmts_PutBeforeStatusCheck ==
    <<Stmt("assert", ERR_NOT_VERIFIER),
      Stmt("assert", ERR_CLAIM_NOT_FOUND),
      Stmt("write", AVM_BOX_SIZE),
      Stmt("assert", ERR_CLAIM_NOT_PENDING),
      Stmt("emit", OK)>>

\* lines 198, 203, 207, 218, 221
verify_claim_stmts ==
    <<Stmt("assert", ERR_NOT_VERIFIER),
      Stmt("assert", ERR_CLAIM_NOT_FOUND),
      Stmt("assert", ERR_CLAIM_NOT_PENDING),
      Stmt("write", AVM_BOX_SIZE),
      Stmt("emit", OK)>>

verify_claim(sender, farmer_address, approved) ==
    LET err == verify_claim_err(sender, farmer_address, approved)
    IN  /\ created
        /\ last' = Call("verify_claim", sender, farmer_address, U64Zero, "", approved, err,
                        <<"ClaimVerified", farmer_address, new_status(approved), sender>>)
        /\ IF err = OK
           THEN /\ claims' = [claims EXCEPT ![farmer_address] =
                                  updated_claim(claims[farmer_address], sender, approved)]
                /\ decidedBy' = [decidedBy EXCEPT ![farmer_address] =
                                  [decided |-> TRUE, verifier |-> sender, at |-> now,
                                   approved |-> approved]]
           ELSE UNCHANGED <<claims, decidedBy>>
        /\ UNCHANGED <<created, admin, enrollments, verifiers, now,
                       enrolledBy, submittedBy, refVerifiers, beforeAdd>>

(***************************************************************************)
(* add_verifier                                                            *)
(***************************************************************************)
add_verifier_err(sender, verifier_address) ==
    IF Address(sender) # admin THEN ERR_NOT_ADMIN
    ELSE IF verifiers.exists
         THEN IF _verifier_in_list(verifiers.bytes, Address(verifier_address))
              THEN ERR_VERIFIER_EXISTS
              ELSE IF ~BoxPutOk(TRUE, Len(verifiers.bytes),
                                Len(verifiers.bytes \o Address(verifier_address)))
                   THEN AVM_BOX_SIZE
              ELSE OK
    ELSE IF ~BoxPutOk(TRUE, ADDRESS_LENGTH, Len(Address(verifier_address))) THEN AVM_BOX_SIZE
    ELSE OK

\* the box after verifiers_box.put(new_verifiers), or after create and put
added_box(verifier_address) ==
    [exists |-> TRUE,
     bytes |-> IF verifiers.exists THEN verifiers.bytes \o Address(verifier_address)
               ELSE Address(verifier_address)]

\* lines 236, then 245, 248 if the box exists and 251, 252 if not, then 255
add_verifier_stmts ==
    IF verifiers.exists
    THEN <<Stmt("assert", ERR_NOT_ADMIN),
           Stmt("assert", ERR_VERIFIER_EXISTS),
           Stmt("write", AVM_BOX_SIZE),
           Stmt("emit", OK)>>
    ELSE <<Stmt("assert", ERR_NOT_ADMIN),
           Stmt("write", OK),
           Stmt("write", AVM_BOX_SIZE),
           Stmt("emit", OK)>>

add_verifier(sender, verifier_address) ==
    LET err == add_verifier_err(sender, verifier_address)
    IN  /\ created
        /\ last' = Call("add_verifier", sender, verifier_address, U64Zero, "", FALSE, err,
                        <<"VerifierAdded", verifier_address>>)
        /\ IF err = OK
           THEN /\ verifiers' = added_box(verifier_address)
                /\ refVerifiers' = refVerifiers \cup {verifier_address}
                /\ beforeAdd' = verifiers
           ELSE UNCHANGED <<verifiers, refVerifiers, beforeAdd>>
        /\ UNCHANGED <<created, admin, enrollments, claims, now,
                       enrolledBy, submittedBy, decidedBy>>

(***************************************************************************)
(* remove_verifier                                                         *)
(***************************************************************************)
\* remove_verifier without the admin assert
remove_verifier_err_NoAdminCheck(sender, verifier_address) ==
    IF ~verifiers.exists THEN ERR_VERIFIER_NOT_FOUND
    ELSE LET new_verifiers == _remove_from_list(verifiers.bytes, Address(verifier_address))
         IN  IF ~(Len(new_verifiers) < Len(verifiers.bytes)) THEN ERR_VERIFIER_NOT_FOUND
             ELSE IF Len(new_verifiers) = 0 THEN OK
             ELSE IF ~BoxPutOk(TRUE, Len(verifiers.bytes), Len(new_verifiers))
                  THEN AVM_BOX_SIZE
             ELSE OK

\* remove_verifier without the assert that the list got shorter
remove_verifier_err_NoLengthCheck(sender, verifier_address) ==
    IF Address(sender) # admin THEN ERR_NOT_ADMIN
    ELSE IF ~verifiers.exists THEN ERR_VERIFIER_NOT_FOUND
    ELSE LET new_verifiers == _remove_from_list(verifiers.bytes, Address(verifier_address))
         IN  IF Len(new_verifiers) = 0 THEN OK
             ELSE IF ~BoxPutOk(TRUE, Len(verifiers.bytes), Len(new_verifiers))
                  THEN AVM_BOX_SIZE
             ELSE OK

remove_verifier_err(sender, verifier_address) ==
    IF Address(sender) # admin THEN ERR_NOT_ADMIN
    ELSE IF ~verifiers.exists THEN ERR_VERIFIER_NOT_FOUND
    ELSE LET new_verifiers == _remove_from_list(verifiers.bytes, Address(verifier_address))
         IN  IF ~(Len(new_verifiers) < Len(verifiers.bytes)) THEN ERR_VERIFIER_NOT_FOUND
             ELSE IF Len(new_verifiers) = 0 THEN OK
             ELSE IF ~BoxPutOk(TRUE, Len(verifiers.bytes), Len(new_verifiers))
                  THEN AVM_BOX_SIZE
             ELSE OK

\* remove_verifier that stores the empty list instead of deleting the box
removed_box_PutEmpty(verifier_address) ==
    [exists |-> TRUE, bytes |-> _remove_from_list(verifiers.bytes, Address(verifier_address))]

\* the box after verifiers_box.delete() or verifiers_box.put(new_verifiers)
removed_box(verifier_address) ==
    LET new_verifiers == _remove_from_list(verifiers.bytes, Address(verifier_address))
    IN  IF Len(new_verifiers) = 0 THEN NoVerifiers
        ELSE [exists |-> TRUE, bytes |-> new_verifiers]

\* lines 270, 274, 279, then 282 (delete) or 284 (put), then 287
remove_verifier_stmts ==
    <<Stmt("assert", ERR_NOT_ADMIN),
      Stmt("assert", ERR_VERIFIER_NOT_FOUND),
      Stmt("assert", ERR_VERIFIER_NOT_FOUND),
      Stmt("write", AVM_BOX_SIZE),
      Stmt("emit", OK)>>

remove_verifier(sender, verifier_address) ==
    LET err == remove_verifier_err(sender, verifier_address)
    IN  /\ created
        /\ last' = Call("remove_verifier", sender, verifier_address, U64Zero, "", FALSE, err,
                        <<"VerifierRemoved", verifier_address>>)
        /\ IF err = OK
           THEN /\ verifiers' = removed_box(verifier_address)
                /\ refVerifiers' = refVerifiers \ {verifier_address}
           ELSE UNCHANGED <<verifiers, refVerifiers>>
        /\ UNCHANGED <<created, admin, enrollments, claims, now,
                       enrolledBy, submittedBy, decidedBy, beforeAdd>>

(***************************************************************************)
(* The ledger clock: Global.latest_timestamp never goes back.              *)
(***************************************************************************)
(***************************************************************************)
(* get_claim, get_enrollment: read-only, they fail when the box is absent  *)
(***************************************************************************)
\* assert claim_box.exists, ERR_CLAIM_NOT_FOUND (line 305)
get_claim_err(farmer_address) ==
    IF ~claims[farmer_address].exists THEN ERR_CLAIM_NOT_FOUND
    ELSE IF ClaimDetailsLogLength(claims[farmer_address]) > MaxLogSize THEN AVM_LOG_SIZE
    ELSE OK

\* line 305, and the return of lines 309-316, which the router logs
get_claim_stmts ==
    <<Stmt("assert", ERR_CLAIM_NOT_FOUND),
      Stmt("return", AVM_LOG_SIZE)>>

get_claim(sender, farmer_address) ==
    /\ created
    /\ last' = Call("get_claim", sender, farmer_address, U64Zero, "", FALSE,
                    get_claim_err(farmer_address), NoEvent)
    /\ UNCHANGED <<store, now, ghost>>

\* assert enrollment_box.exists, ERR_ENROLLMENT_NOT_FOUND (line 334)
get_enrollment_err(farmer_address) ==
    IF ~enrollments[farmer_address].exists THEN ERR_ENROLLMENT_NOT_FOUND ELSE OK

\* line 334, and the return of lines 338-342, 52 bytes of log
get_enrollment_stmts ==
    <<Stmt("assert", ERR_ENROLLMENT_NOT_FOUND),
      Stmt("return", OK)>>

get_enrollment(sender, farmer_address) ==
    /\ created
    /\ last' = Call("get_enrollment", sender, farmer_address, U64Zero, "", FALSE,
                    get_enrollment_err(farmer_address), NoEvent)
    /\ UNCHANGED <<store, now, ghost>>

Tick(d) ==
    /\ now + d <= MaxTime
    /\ now' = now + d
    /\ last' = NoCall
    /\ UNCHANGED <<store, ghost>>

\* a call is the method together with the run of its statements
Next ==
    \/ \E s \in Accounts : create(s) /\ ran' = Run(create_stmts, last'.err)
    \/ \E s \in Farmers, d \in DeadlineDays :
            enroll_farmer(s, d) /\ ran' = Run(enroll_farmer_stmts, last'.err)
    \/ \E s \in Farmers, h \in ProofHashes :
            submit_claim(s, h) /\ ran' = Run(submit_claim_stmts, last'.err)
    \/ \E s \in Accounts, f \in Accounts, b \in BOOLEAN :
            verify_claim(s, f, b) /\ ran' = Run(verify_claim_stmts, last'.err)
    \/ \E s \in Accounts, v \in Accounts :
            add_verifier(s, v) /\ ran' = Run(add_verifier_stmts, last'.err)
    \/ \E s \in Accounts, v \in Accounts :
            remove_verifier(s, v) /\ ran' = Run(remove_verifier_stmts, last'.err)
    \/ \E s \in Farmers, f \in Accounts :
            get_claim(s, f) /\ ran' = Run(get_claim_stmts, last'.err)
    \/ \E s \in Farmers, f \in Accounts :
            get_enrollment(s, f) /\ ran' = Run(get_enrollment_stmts, last'.err)
    \/ \E d \in TimeSteps : Tick(d) /\ ran' = NoRun

Spec == Init /\ [][Next]_vars

(***************************************************************************)
(* Properties.                                                             *)
(***************************************************************************)
Decided == {APPROVED, REJECTED}

\* the step is a call of the method op: every call writes its record, and a
\* call that leaves the record as it was repeats the call before it
Called(op) == last' # last /\ last'.op = op

\* C1: every Claim record is created PENDING, its status changes only from
\* PENDING to APPROVED or REJECTED, and a claim that is APPROVED or REJECTED
\* is never changed again in any field.
C1_ClaimLifecycle ==
    [][\A a \in Accounts :
        /\ (~claims[a].exists /\ claims'[a].exists) => claims'[a].status = PENDING
        /\ (claims[a].exists /\ claims'[a].status # claims[a].status)
              => (claims[a].status = PENDING /\ claims'[a].status \in Decided)
        /\ (claims[a].exists /\ claims[a].status \in Decided) => claims'[a] = claims[a]]_vars

\* a verifier tried to decide a claim that was already approved
C1_Witness ==
    /\ last.op = "verify_claim"
    /\ last.err = ERR_CLAIM_NOT_PENDING
    /\ claims[last.addr].status = APPROVED

\* C2: once a Claim record exists for an identity no submit_claim by that
\* identity succeeds, whatever the claim's status, and no step deletes a
\* Claim record.
C2_SubmitOnce ==
    [][\A a \in Accounts :
        claims[a].exists =>
            /\ claims'[a].exists
            /\ (Called("submit_claim") /\ last'.sender = a) => last'.err # OK]_vars

\* a farmer whose claim was rejected has submitted again, in time, and failed
C2_Witness ==
    /\ last.op = "submit_claim"
    /\ last.err # OK
    /\ last.proof # ""
    /\ claims[last.sender].status = REJECTED
    /\ U64Less(U64(now), enrollments[last.sender].claim_deadline)

\* C3 as stated: after a successful submit_claim every later submit_claim by
\* the same identity fails with ERR_DUPLICATE_CLAIM, at any time and with any
\* proof_hash.
C3_Original ==
    [][(Called("submit_claim") /\ last'.sender \in submittedBy)
            => last'.err = ERR_DUPLICATE_CLAIM]_vars

\* C3 (amended): after a successful submit_claim every later submit_claim by
\* the same identity fails, also once the claim is REJECTED: with
\* ERR_INVALID_PROOF_HASH if proof_hash is empty, else with
\* ERR_DEADLINE_PASSED if the ledger time has reached claim_deadline, else
\* with ERR_DUPLICATE_CLAIM.
C3_LaterSubmitFails ==
    [][(Called("submit_claim") /\ last'.sender \in submittedBy) =>
            last'.err = IF last'.proof = "" THEN ERR_INVALID_PROOF_HASH
                        ELSE IF ~U64Less(U64(now), enrollments[last'.sender].claim_deadline)
                             THEN ERR_DEADLINE_PASSED
                        ELSE ERR_DUPLICATE_CLAIM]_vars

\* a farmer with a claim has submitted again after the deadline
C3_Witness ==
    /\ last.op = "submit_claim"
    /\ last.sender \in submittedBy
    /\ last.err = ERR_DEADLINE_PASSED
    /\ claims[last.sender].exists

\* C4 as stated: enroll_farmer by an enrolled identity fails with
\* ERR_ALREADY_ENROLLED whatever deadline_days is, and changes no record.
C4_Original ==
    [][(Called("enroll_farmer") /\ enrollments[last'.sender].exists) =>
            (last'.err = ERR_ALREADY_ENROLLED /\ enrollments' = enrollments)]_vars

\* C4 (amended): enroll_farmer by an enrolled identity fails and leaves the
\* record unchanged: with ERR_INVALID_DEADLINE if deadline_days is 0 and with
\* ERR_ALREADY_ENROLLED for every other deadline_days.
C4_SecondEnrollFails ==
    [][(Called("enroll_farmer") /\ enrollments[last'.sender].exists) =>
            /\ last'.err = IF last'.days = U64Zero THEN ERR_INVALID_DEADLINE
                           ELSE ERR_ALREADY_ENROLLED
            /\ enrollments' = enrollments]_vars

\* an enrolled farmer has enrolled again with a number of days that would
\* overflow the deadline
C4_Witness ==
    /\ last.op = "enroll_farmer"
    /\ last.err = ERR_ALREADY_ENROLLED
    /\ last.days = DaysTooLarge
    /\ enrollments[last.sender].exists

\* C5 as stated: once a verify_claim on A's claim has succeeded every later
\* verify_claim targeting A fails with ERR_CLAIM_NOT_PENDING and changes
\* nothing.
C5_Original ==
    [][(Called("verify_claim") /\ decidedBy[last'.addr].decided) =>
            (last'.err = ERR_CLAIM_NOT_PENDING /\ UNCHANGED store)]_vars

\* C5 (amended): once a verify_claim on A's claim has succeeded every later
\* verify_claim targeting A fails and changes nothing, whatever approved is:
\* with ERR_CLAIM_NOT_PENDING if the caller is in the verifier set at the time
\* of the call and with ERR_NOT_VERIFIER if it is not.
C5_SecondVerifyFails ==
    [][(Called("verify_claim") /\ decidedBy[last'.addr].decided) =>
            /\ last'.err = IF is_verifier(last'.sender) THEN ERR_CLAIM_NOT_PENDING
                           ELSE ERR_NOT_VERIFIER
            /\ UNCHANGED store]_vars

\* a verifier has tried to approve a claim that was rejected
C5_Witness ==
    /\ last.op = "verify_claim"
    /\ last.approved
    /\ last.err = ERR_CLAIM_NOT_PENDING
    /\ decidedBy[last.addr].decided
    /\ claims[last.addr].status = REJECTED

\* C6: the status of a claim changes only in a successful verify_claim whose
\* sender is in the verifier set when it calls; a sender outside the set (the
\* admin, an identity that was removed and not added again) gets
\* ERR_NOT_VERIFIER.
C6_OnlyVerifiersDecide ==
    [][/\ \A a \in Accounts :
            (claims[a].exists /\ claims'[a].status # claims[a].status) =>
                /\ last'.op = "verify_claim"
                /\ last'.addr = a
                /\ last'.err = OK
                /\ is_verifier(last'.sender)
                /\ last'.sender \in refVerifiers
       /\ (Called("verify_claim") /\ last'.sender \notin refVerifiers) =>
                (last'.err = ERR_NOT_VERIFIER /\ claims' = claims)]_vars

\* the admin was a verifier and decided a claim, was removed from the set,
\* and has called verify_claim on that claim again
C6_Witness ==
    /\ last.op = "verify_claim"
    /\ last.err = ERR_NOT_VERIFIER
    /\ Address(last.sender) = admin
    /\ decidedBy[last.addr].decided
    /\ decidedBy[last.addr].verifier = last.sender
    /\ last.sender \notin refVerifiers

\* C7: the verifier box changes only in a successful add_verifier or
\* remove_verifier sent by the admin; either call from another sender fails
\* with ERR_NOT_ADMIN and leaves the box as it was.
C7_OnlyAdminEditsVerifiers ==
    [][/\ verifiers' # verifiers =>
            /\ last'.op \in {"add_verifier", "remove_verifier"}
            /\ last'.err = OK
            /\ Address(last'.sender) = admin
       /\ ((Called("add_verifier") \/ Called("remove_verifier")) /\ Address(last'.sender) # admin)
              => (last'.err = ERR_NOT_ADMIN /\ verifiers' = verifiers)]_vars

\* a sender that is not the admin has tried to remove the current verifier
C7_Witness ==
    /\ last.op = "remove_verifier"
    /\ Address(last.sender) # admin
    /\ last.err = ERR_NOT_ADMIN
    /\ is_verifier(last.addr)

\* C8: create sets the admin to its sender, and afterwards no step, a repeated
\* create included, changes what get_admin returns.
C8_AdminFixed ==
    [][/\ (~created /\ Called("create")) => (created' /\ get_admin' = Address(last'.sender))
       /\ (~created /\ created') => Called("create")
       /\ created => (created' /\ get_admin' = get_admin)]_vars

\* another account has called create on the created application
C8_Witness ==
    /\ created
    /\ last.op = "create"
    /\ Address(last.sender) # get_admin

\* C9: an Enrollment record appears only in a successful enroll_farmer sent
\* by its identity, and once it exists it is never changed or deleted.
C9_EnrollmentPermanent ==
    [][\A a \in Accounts :
        /\ (~enrollments[a].exists /\ enrollments'[a].exists) =>
              (a \in enrolledBy' /\ Called("enroll_farmer") /\ last'.sender = a /\ last'.err = OK)
        /\ enrollments[a].exists => enrollments'[a] = enrollments[a]]_vars

\* an enrolled farmer has enrolled again at a later ledger time
C9_Witness ==
    /\ last.op = "enroll_farmer"
    /\ last.days = U64(1)
    /\ enrollments[last.sender].exists
    /\ U64Less(enrollments[last.sender].enrollment_timestamp, U64(now))

\* C10: is_verifier(identity) is true exactly for the identities added by a
\* successful add_verifier and not removed by a successful remove_verifier
\* since.
C10_IsVerifierIsMembership ==
    \A a \in Accounts : is_verifier(a) <=> a \in refVerifiers

\* one identity was added, removed and added again, and then the admin's
\* add_verifier of another identity failed
C10_Witness ==
    /\ last.op = "add_verifier"
    /\ last.err # OK
    /\ Address(last.sender) = admin
    /\ ~is_verifier(last.addr)
    /\ \E a \in Accounts : is_verifier(a) /\ decidedBy[2].decided /\ decidedBy[2].verifier # a

RECURSIVE Entries(_)
\* the 32-byte entries of a verifier blob, in order
Entries(bytes) ==
    IF Len(bytes) < ADDRESS_LENGTH THEN <<>>
    ELSE <<SubSeq(bytes, 1, ADDRESS_LENGTH)>> \o Entries(SubSeq(bytes, ADDRESS_LENGTH + 1, Len(bytes)))

\* C11: the verifier box is absent, or it holds a non-empty blob whose length
\* is a multiple of 32 and whose 32-byte entries are pairwise distinct; a box
\* that exists with an empty blob never occurs.
C11_VerifierBoxWellFormed ==
    IF verifiers.exists
    THEN /\ Len(verifiers.bytes) > 0
         /\ Len(verifiers.bytes) % ADDRESS_LENGTH = 0
         /\ \A i, j \in 1..Len(Entries(verifiers.bytes)) :
                Entries(verifiers.bytes)[i] = Entries(verifiers.bytes)[j] => i = j
    ELSE verifiers.bytes = <<>>

\* the admin has removed the only verifier and added another identity
C11_Witness ==
    /\ last.op = "add_verifier"
    /\ last.err = OK
    /\ verifiers.exists
    /\ beforeAdd = NoVerifiers
    /\ \E a \in Accounts : decidedBy[a].decided /\ decidedBy[a].verifier # last.addr

\* C12: when the admin calls add_verifier for an identity that is not in the
\* set and directly afterwards remove_verifier for the same identity, the
\* verifier box is again what it was before the add; if it was absent before
\* the add, the remove succeeds and leaves it absent.
C12_AddThenRemoveRestores ==
    [][(/\ last.op = "add_verifier"
        /\ Address(last.sender) = admin
        /\ last.err # ERR_VERIFIER_EXISTS
        /\ Called("remove_verifier")
        /\ last'.sender = last.sender
        /\ last'.addr = last.addr)
       => /\ verifiers' = IF last.err = OK THEN beforeAdd ELSE verifiers
          /\ (last.err = OK /\ ~beforeAdd.exists) =>
                 (last'.err = OK /\ ~verifiers'.exists /\ verifiers'.bytes = <<>>)]_vars

\* the admin has added an identity to the empty set and removed it again
C12_Witness ==
    /\ last.op = "remove_verifier"
    /\ last.err = OK
    /\ Address(last.sender) = admin
    /\ ~verifiers.exists
    /\ beforeAdd = NoVerifiers
    /\ refVerifiers = {}

\* C13: remove_verifier by the admin for an identity that is not in the set
\* fails with ERR_VERIFIER_NOT_FOUND, whether the box is absent or holds other
\* identities, and add_verifier by the admin for an identity that is in the
\* set fails with ERR_VERIFIER_EXISTS; both leave the box as it was.
C13_NonMemberAndMemberRejected ==
    [][/\ (Called("remove_verifier") /\ Address(last'.sender) = admin
                                     /\ last'.addr \notin refVerifiers)
          => (last'.err = ERR_VERIFIER_NOT_FOUND /\ verifiers' = verifiers)
       /\ (Called("add_verifier") /\ Address(last'.sender) = admin
                                  /\ last'.addr \in refVerifiers)
          => (last'.err = ERR_VERIFIER_EXISTS /\ verifiers' = verifiers)]_vars

\* the admin has tried to remove an identity from a box that holds another one
C13_Witness ==
    /\ last.op = "remove_verifier"
    /\ last.err = ERR_VERIFIER_NOT_FOUND
    /\ Address(last.sender) = admin
    /\ verifiers.exists
    /\ last.addr \notin refVerifiers
    /\ refVerifiers # {}

\* C14: a call of any operation, the read-only get_claim and get_enrollment
\* included, that fails, fails with the error of one of the method's
\* statements; when that statement is a precondition check (any failure but
\* the log overflow of submit_claim's emit, which follows the two writes and
\* which the AVM rolls back) every write and every emit of the method comes
\* after it, so that the AVM has nothing to discard; in every failing call
\* no notification is logged, and the admin, every Enrollment record, every
\* Claim record and the verifier box (its existence and its bytes) are as
\* they were before the call.
C14_FailedCallHasNoEffect ==
    /\ [](last.op # "none" =>
            /\ ran.raised
            /\ last.err # OK =>
                  /\ last.event = NoEvent
                  /\ ran.discards => (last.op = "submit_claim" /\ last.err = AVM_LOG_SIZE))
    /\ [][(last' # last /\ last'.op # "none" /\ last'.err # OK)
           => /\ created' = created
              /\ admin' = admin
              /\ enrollments' = enrollments
              /\ claims' = claims
              /\ verifiers' = verifiers]_vars

\* a call has failed at its last statement before the emit, the put into
\* the verifier box, on a store that holds an enrollment and a claim
C14_Witness ==
    /\ last.op = "add_verifier"
    /\ last.err = AVM_BOX_SIZE
    /\ ran = [raised |-> TRUE, discards |-> FALSE]
    /\ verifiers.exists
    /\ \E a \in Accounts : enrollments[a].exists /\ claims[a].exists

\* C15: for every deadline_days > 0 and every caller without an Enrollment
\* record, enroll_farmer succeeds and stores enrollment_timestamp = now and
\* claim_deadline = now + deadline_days * 86400, not wrapped; and an
\* enroll_farmer call that fails, fails with ERR_INVALID_DEADLINE or with
\* ERR_ALREADY_ENROLLED.  The code aborts in the multiplication or in the
\* addition when the result does not fit 64 bits, so this does not hold.
C15_Original ==
    [][Called("enroll_farmer") =>
         /\ last'.err \in {OK, ERR_INVALID_DEADLINE, ERR_ALREADY_ENROLLED}
         /\ (U64Less(U64Zero, last'.days) /\ ~enrollments[last'.sender].exists)
            => /\ last'.err = OK
               /\ enrollments'[last'.sender].exists
               /\ enrollments'[last'.sender].enrollment_timestamp = U64(now)
               /\ enroll_claim_deadline(last'.days).ok
               /\ enrollments'[last'.sender].claim_deadline =
                      enroll_claim_deadline(last'.days).val]_vars

\* C16: submit_claim reports the first violated precondition in the order
\* ERR_INVALID_PROOF_HASH (empty proof_hash), ERR_NOT_ENROLLED (the sender
\* never enrolled), ERR_DEADLINE_PASSED (now >= claim_deadline, equality
\* included), ERR_DUPLICATE_CLAIM (the sender submitted before), and succeeds
\* exactly when none is violated.  The code's emit of ClaimSubmitted logs
\* 40 bytes and the proof_hash, so with a proof_hash of 985 bytes or more a
\* call that violates none of the four is aborted by the AVM, and this does
\* not hold.
C16_Original ==
    [][Called("submit_claim") =>
         last'.err = IF last'.proof = "" THEN ERR_INVALID_PROOF_HASH
                     ELSE IF last'.sender \notin enrolledBy THEN ERR_NOT_ENROLLED
                     ELSE IF ~U64Less(U64(now), enrollments[last'.sender].claim_deadline)
                          THEN ERR_DEADLINE_PASSED
                     ELSE IF last'.sender \in submittedBy THEN ERR_DUPLICATE_CLAIM
                     ELSE OK]_vars

\* an enrolled sender without a claim has submitted a proof_hash of 985
\* bytes before the deadline, and the call has been aborted after its writes
C16_Witness ==
    /\ last.op = "submit_claim"
    /\ Len(last.proof) = 985
    /\ last.sender \in enrolledBy
    /\ last.sender \notin submittedBy
    /\ U64Less(U64(now), enrollments[last.sender].claim_deadline)
    /\ last.err = AVM_LOG_SIZE
    /\ ran = [raised |-> TRUE, discards |-> TRUE]
    /\ ~claims[last.sender].exists

\* C17: verify_claim reports the first violated precondition in the order
\* ERR_NOT_VERIFIER (the sender is not in the verifier set, whether or not
\* the target has a claim or the claim is pending), ERR_CLAIM_NOT_FOUND (the
\* target never submitted), ERR_CLAIM_NOT_PENDING (the claim was decided),
\* and succeeds when none is violated.
C17_VerifyCheckOrder ==
    [][Called("verify_claim") =>
         last'.err = IF last'.sender \notin refVerifiers THEN ERR_NOT_VERIFIER
                     ELSE IF last'.addr \notin submittedBy THEN ERR_CLAIM_NOT_FOUND
                     ELSE IF decidedBy[last'.addr].decided THEN ERR_CLAIM_NOT_PENDING
                     ELSE OK]_vars

\* while the set holds a verifier, another sender has targeted an identity
\* that has no claim
C17_Witness ==
    /\ last.op = "verify_claim"
    /\ last.err = ERR_NOT_VERIFIER
    /\ refVerifiers # {}
    /\ last.addr \notin submittedBy
    /\ ~claims[last.addr].exists

\* C18: a successful verify_claim(sender, target, approved) at time now sets
\* the target's status to APPROVED if approved and to REJECTED otherwise, its
\* verifier_address to the sender and its verification_timestamp to now,
\* keeps the claim's proof_hash and submission_timestamp, and changes no
\* other Claim record, no Enrollment record, not the verifier box and not
\* the admin.
C18_VerifyEffectAndFrame ==
    [][(Called("verify_claim") /\ last'.err = OK) =>
         /\ claims'[last'.addr].exists
         /\ claims'[last'.addr].status = IF last'.approved THEN APPROVED ELSE REJECTED
         /\ claims'[last'.addr].verifier_address = last'.sender
         /\ claims'[last'.addr].verification_timestamp = U64(now)
         /\ claims'[last'.addr].proof_hash = claims[last'.addr].proof_hash
         /\ claims'[last'.addr].submission_timestamp = claims[last'.addr].submission_timestamp
         /\ \A a \in Accounts \ {last'.addr} : claims'[a] = claims[a]
         /\ enrollments' = enrollments
         /\ verifiers' = verifiers
         /\ admin' = admin]_vars

\* a claim has been rejected a day after it was submitted
C18_Witness ==
    /\ last.op = "verify_claim"
    /\ last.err = OK
    /\ ~last.approved
    /\ claims[last.addr].status = REJECTED
    /\ claims[last.addr].verification_timestamp = U64(now)
    /\ U64Less(claims[last.addr].submission_timestamp, U64(now))

\* C19: add_verifier by the admin for an identity that is not in the set
\* succeeds whether the box is absent or already holds identities, and the
\* box afterwards holds the previous entries followed by the new identity.
\* The code's put of the longer blob into the existing box aborts, so this
\* does not hold once the box holds one identity.
C19_Original ==
    [][(Called("add_verifier") /\ Address(last'.sender) = admin
                              /\ last'.addr \notin refVerifiers)
       => /\ last'.err = OK
          /\ verifiers'.exists
          /\ verifiers'.bytes = verifiers.bytes \o Address(last'.addr)]_vars

\* C21: a PENDING claim has the zero identity as verifier_address and 0 as
\* verification_timestamp and was never decided; an APPROVED or REJECTED
\* claim has the sender of the verify_claim call that decided it as
\* verifier_address and the ledger time of that call as
\* verification_timestamp; and once a claim is decided no step changes these
\* two fields again.
C21_VerifierFieldsSetOnce ==
    /\ [](\A a \in Accounts :
            claims[a].exists =>
                IF claims[a].status = PENDING
                THEN /\ claims[a].verifier_address = ZeroAddress
                     /\ claims[a].verification_timestamp = U64(0)
                     /\ ~decidedBy[a].decided
                ELSE /\ claims[a].status \in Decided
                     /\ decidedBy[a].decided
                     /\ claims[a].verifier_address = decidedBy[a].verifier
                     /\ claims[a].verification_timestamp = U64(decidedBy[a].at))
    /\ [][\A a \in Accounts :
            /\ (claims[a].exists /\ claims[a].status # PENDING) =>
                  /\ claims'[a].verifier_address = claims[a].verifier_address
                  /\ claims'[a].verification_timestamp = claims[a].verification_timestamp
                  /\ decidedBy'[a] = decidedBy[a]
            /\ (claims[a].exists /\ claims'[a].verifier_address # claims[a].verifier_address)
                  => (Called("verify_claim") /\ last'.err = OK /\ last'.addr = a)]_vars

\* a day after a claim was decided, the verifier that replaced the deciding
\* one has tried to decide it again
C21_Witness ==
    /\ last.op = "verify_claim"
    /\ last.err = ERR_CLAIM_NOT_PENDING
    /\ last.sender \in refVerifiers
    /\ decidedBy[last.addr].decided
    /\ decidedBy[last.addr].verifier # last.sender
    /\ claims[last.addr].verifier_address = decidedBy[last.addr].verifier
    /\ claims[last.addr].verification_timestamp = U64(0)
    /\ now > 0

\* C22: every identity that has a Claim record has an Enrollment record with
\* enrollment_timestamp <= submission_timestamp < claim_deadline, and a
\* decided claim has verification_timestamp >= submission_timestamp.
C22_RecordsOrderedInTime ==
    \A a \in Accounts :
        claims[a].exists =>
            /\ enrollments[a].exists
            /\ ~U64Less(claims[a].submission_timestamp, enrollments[a].enrollment_timestamp)
            /\ U64Less(claims[a].submission_timestamp, enrollments[a].claim_deadline)
            /\ claims[a].status \in Decided =>
                   ~U64Less(claims[a].verification_timestamp, claims[a].submission_timestamp)

\* a claim submitted a day after the enrollment has been decided
C22_Witness ==
    \E a \in Accounts :
        /\ claims[a].exists
        /\ claims[a].status \in Decided
        /\ U64Less(enrollments[a].enrollment_timestamp, claims[a].submission_timestamp)
        /\ claims[a].verification_timestamp = claims[a].submission_timestamp

\* C23: a verify_claim by an identity that is in the verifier set, for a
\* claim that is PENDING, succeeds at every ledger time, also at or after
\* the farmer's claim_deadline; and a decided claim keeps its status and its
\* verifier_address in every later step, a remove_verifier of the identity
\* that decided it included.
C23_VerifyIgnoresDeadlineAndRoster ==
    [][/\ (/\ Called("verify_claim")
            /\ last'.sender \in refVerifiers
            /\ claims[last'.addr].exists
            /\ claims[last'.addr].status = PENDING) => last'.err = OK
       /\ \A a \in Accounts :
             (claims[a].exists /\ claims[a].status \in Decided) =>
                 /\ claims'[a].status = claims[a].status
                 /\ claims'[a].verifier_address = claims[a].verifier_address
       /\ (Called("remove_verifier") /\ last'.err = OK) => claims' = claims]_vars

\* the verifier that decided a claim at the farmer's deadline has been removed
C23_Witness ==
    /\ last.op = "remove_verifier"
    /\ last.err = OK
    /\ last.addr \notin refVerifiers
    /\ \E a \in Accounts :
          /\ claims[a].exists
          /\ claims[a].status \in Decided
          /\ claims[a].verifier_address = last.addr
          /\ ~U64Less(claims[a].verification_timestamp, enrollments[a].claim_deadline)
====
